---- MODULE Spec2Model ----
(***************************************************************************)
(* Surrealigrate (src/index.js): a CLI that applies and reverts versioned  *)
(* SurrealDB migration scripts and records the applied versions in the     *)
(* `migrations` table.                                                     *)
(*                                                                         *)
(* One command invocation is one process: it runs migrate() or rollback()  *)
(* to its end (return, process.exit or uncaught exception).  The database  *)
(* and the migration directory outlive the process.  Every db.query is one *)
(* step of the model and may succeed or be rejected.                       *)
(***************************************************************************)
EXTENDS Integers, Sequences, FiniteSets, Bags, TLC

(***************************************************************************)
(* Bounds of the model.                                                    *)
(***************************************************************************)
MaxVersion == 2

(***************************************************************************)
(* JavaScript values.  A number is an integer, NaN or -Infinity; numbers   *)
(* that may be NaN or -Infinity are carried as records so that they can be *)
(* compared with each other.                                               *)
(***************************************************************************)
Num(n) == [kind |-> "num", n |-> n]
NaN == [kind |-> "NaN", n |-> 0]
NegInfinity == [kind |-> "-Infinity", n |-> 0]

\* a < b on JavaScript numbers: any comparison with NaN is false
Lt(a, b) ==
    CASE a.kind = "NaN" \/ b.kind = "NaN" -> FALSE
      [] b.kind = "-Infinity" -> FALSE
      [] a.kind = "-Infinity" -> TRUE
      [] OTHER -> a.n < b.n

\* a === b on JavaScript numbers
StrictEq(a, b) ==
    CASE a.kind = "NaN" \/ b.kind = "NaN" -> FALSE
      [] OTHER -> a.kind = b.kind /\ a.n = b.n

Le(a, b) == Lt(a, b) \/ StrictEq(a, b)
Gt(a, b) == Lt(b, a)
Ge(a, b) == Le(b, a)

\* undefined / null / "" : the falsy values the code tests with `x ? :` and `||`
Undefined == ""

(***************************************************************************)
(* Strings.                                                                *)
(***************************************************************************)
Digits == {"0", "1", "2", "3", "4", "5", "6", "7", "8", "9"}

DigitVal(c) ==
    CASE c = "0" -> 0 [] c = "1" -> 1 [] c = "2" -> 2 [] c = "3" -> 3
      [] c = "4" -> 4 [] c = "5" -> 5 [] c = "6" -> 6 [] c = "7" -> 7
      [] c = "8" -> 8 [] c = "9" -> 9

CharAt(s, i) == SubSeq(s, i, i)

\* String.prototype.includes
Includes(s, sub) ==
    \E i \in 1..(Len(s) - Len(sub) + 1) : SubSeq(s, i, i + Len(sub) - 1) = sub

\* path.basename(file, ext): the extension is dropped when the name ends
\* with it and is not the extension alone
Basename(file, ext) ==
    IF /\ Len(file) > Len(ext)
       /\ SubSeq(file, Len(file) - Len(ext) + 1, Len(file)) = ext
    THEN SubSeq(file, 1, Len(file) - Len(ext))
    ELSE file

\* String.prototype.split('.')
RECURSIVE SplitFrom(_, _, _)
SplitFrom(s, i, cur) ==
    IF i > Len(s) THEN <<cur>>
    ELSE IF CharAt(s, i) = "." THEN <<cur>> \o SplitFrom(s, i + 1, "")
    ELSE SplitFrom(s, i + 1, cur \o CharAt(s, i))

Split(s) == SplitFrom(s, 1, "")

\* Array.prototype.join('.')
RECURSIVE Join(_)
Join(parts) ==
    IF parts = <<>> THEN ""
    ELSE IF Len(parts) = 1 THEN parts[1]
    ELSE parts[1] \o "." \o Join(Tail(parts))

\* parseInt(s): the value of the longest prefix of decimal digits, after an
\* optional sign; NaN when there is no digit
RECURSIVE ParseDigits(_, _, _)
ParseDigits(s, i, acc) ==
    IF i <= Len(s) /\ CharAt(s, i) \in Digits
    THEN ParseDigits(s, i + 1, 10 * acc + DigitVal(CharAt(s, i)))
    ELSE acc

ParseInt(s) ==
    LET neg == Len(s) >= 1 /\ CharAt(s, 1) = "-"
        from == IF neg THEN 2 ELSE 1
    IN  IF from <= Len(s) /\ CharAt(s, from) \in Digits
        THEN Num((IF neg THEN -1 ELSE 1) * ParseDigits(s, from, 0))
        ELSE NaN


(***************************************************************************)
(* The migration directory.  File names are the real names,                *)
(* <version>.<do|undo>[.<title>].surql; both files of a version carry the  *)
(* same title, so the order in which readdir lists them is not observable. *)
(***************************************************************************)
TitleFor(v) == IF v % 2 = 0 THEN "" ELSE "add.t" \o ToString(v)

FileName(v, action) ==
    ToString(v) \o "." \o action
        \o (IF TitleFor(v) = "" THEN "" ELSE "." \o TitleFor(v)) \o ".surql"

Versions == 1..MaxVersion

MigrationFileNames == {FileName(v, a) : v \in Versions, a \in {"do", "undo"}}

\* values of the --to option: absent, or a version number
ToOptions == {Undefined} \cup {ToString(v) : v \in 0..MaxVersion}

\* fs.readdir: the names of the directory, in some order
RECURSIVE Readdir(_)
Readdir(d) ==
    IF d = {} THEN <<>>
    ELSE LET f == CHOOSE x \in d : TRUE IN <<f>> \o Readdir(d \ {f})

\* the reduce callback of getMigrationFiles, folded over the listed names.
\* acc is the object under construction: its own keys in insertion order
\* and the entry of each key.
RECURSIVE ReduceFiles(_, _)
ReduceFiles(files, acc) ==
    IF files = <<>> THEN acc
    ELSE
      LET file == Head(files)
          parts == Split(Basename(file, ".surql"))
          version == parts[1]
          action == parts[2]
          title == Join(SubSeq(parts, 3, Len(parts)))
          seen == version \in DOMAIN acc.val
          entry == IF seen THEN acc.val[version]
                   ELSE [title |-> title, do |-> Undefined, undo |-> Undefined]
          set == IF action = "do" THEN [entry EXCEPT !.do = file]
                 ELSE IF action = "undo" THEN [entry EXCEPT !.undo = file]
                 ELSE entry
      IN  ReduceFiles(Tail(files),
            [keys |-> IF seen THEN acc.keys ELSE Append(acc.keys, version),
             val |-> [k \in DOMAIN acc.val \cup {version} |->
                        IF k = version THEN set ELSE acc.val[k]]])

NoFiles == [keys |-> <<>>, val |-> [k \in {} |-> Undefined]]

getMigrationFiles(d) ==
    ReduceFiles(
      SelectSeq(Readdir(d),
                LAMBDA file : Includes(file, ".do.") \/ Includes(file, ".undo.")),
      NoFiles)

\* Object.keys: the array-index keys in ascending numeric order, then the
\* other keys in insertion order
IsIndexKey(k) ==
    /\ ParseInt(k).kind = "num"
    /\ ParseInt(k).n >= 0
    /\ ToString(ParseInt(k).n) = k

\* the comparators handed to sort, as "the result is positive":
\* "asc" is (a, b) => parseInt(a) - parseInt(b), "desc" is
\* (a, b) => parseInt(b) - parseInt(a); a NaN result counts as 0
Greater(order, a, b) ==
    IF order = "asc" THEN Gt(ParseInt(a), ParseInt(b))
    ELSE Gt(ParseInt(b), ParseInt(a))

RECURSIVE InsertSorted(_, _, _)
InsertSorted(sorted, x, order) ==
    IF sorted # <<>> /\ Greater(order, sorted[Len(sorted)], x)
    THEN Append(InsertSorted(SubSeq(sorted, 1, Len(sorted) - 1), x, order),
                sorted[Len(sorted)])
    ELSE Append(sorted, x)

\* Array.prototype.sort(cmp): a stable sort
RECURSIVE SortFrom(_, _, _)
SortFrom(s, sorted, order) ==
    IF s = <<>> THEN sorted
    ELSE SortFrom(Tail(s), InsertSorted(sorted, Head(s), order), order)

Sort(s, order) == SortFrom(s, <<>>, order)

ObjectKeys(acc) ==
    Sort(SelectSeq(acc.keys, IsIndexKey), "asc")
      \o SelectSeq(acc.keys, LAMBDA k : ~IsIndexKey(k))

\* Math.max(...versions.map((v) => parseInt(v)))
RECURSIVE MathMaxFrom(_, _)
MathMaxFrom(s, m) ==
    IF s = <<>> THEN m
    ELSE LET x == ParseInt(Head(s))
         IN  IF x.kind = "NaN" \/ m.kind = "NaN" THEN NaN
             ELSE MathMaxFrom(Tail(s), IF Gt(x, m) THEN x ELSE m)

MathMax(s) == MathMaxFrom(s, NegInfinity)

(***************************************************************************)
(* The migrations table: a bag of rows {version, title}.                   *)
(***************************************************************************)
Row(version, title) == [version |-> version, title |-> title]

LedgerVersions(l) == {r.version : r \in BagToSet(l)}

\* SELECT * FROM migrations ORDER BY version DESC LIMIT 1, then
\* result[0]?.[0]?.version || 0
LatestVersion(l) ==
    IF BagToSet(l) = {} THEN 0
    ELSE LET top == CHOOSE v \in LedgerVersions(l) :
                        \A w \in LedgerVersions(l) : w <= v
         IN  IF top = 0 THEN 0 ELSE top

\* a table without the UNIQUE index
ViolatesNoIndex(l, isIndexed, version) == FALSE

\* whether the UNIQUE index on version rejects a new row
ViolatesIndex(l, isIndexed, version) == isIndexed /\ version \in LedgerVersions(l)

\* a CREATE that stores no row
CreateNoRow(l, version, title) == l

\* CREATE migrations SET version = $version [, title = $title]
CreateRow(l, version, title) ==
    l (+) SetToBag({Row(version, IF title # "" THEN title ELSE Undefined)})

\* a DELETE whose condition matches no row
DeleteNoRow(l, version) == l

\* DELETE migrations WHERE version = $version
DeleteRows(l, version) ==
    LET keep == {r \in BagToSet(l) : r.version # version}
    IN  [r \in keep |-> l[r]]

(***************************************************************************)
(* State.                                                                  *)
(*   dir             the names in the migration directory                  *)
(*   ledger          the rows of the migrations table                      *)
(*   indexed         whether the table and its UNIQUE index are defined    *)
(*   applied         the versions whose do script has committed and whose  *)
(*                   undo script has not committed since                   *)
(*   txn             the transaction of the connection: "none", "open",    *)
(*                   or "staged" once the script content has run in it     *)
(*   pc              where the running command stands: "done" when it has  *)
(*                   ended, "idle" between two invocations                 *)
(*   cmd, toVersion  the command and its --to option                       *)
(*   migrationFiles, currentVersion, versions, targetVersion               *)
(*                   the locals of migrate() / rollback()                  *)
(*   idx             the position of the for loop in versions              *)
(*   trace           the queries the command has sent, each with its fate  *)
(*   outcome, failed how the command ended and which call raised           *)
(*   ledger0, consistent0, readOk                                          *)
(*                   the ledger when the command started, whether it then  *)
(*                   equalled applied, and whether the SELECT succeeded    *)
(*   before          the current version of the ledger before the latest   *)
(*                   update of it by the command                           *)
(*   prev            what is remembered of the command before this one     *)
(*   info            the object getInfo() has returned to displayInfo()    *)
(***************************************************************************)
VARIABLES dir, ledger, indexed, applied, txn, pc, cmd, toVersion,
          migrationFiles, currentVersion, versions, targetVersion, idx,
          trace, outcome, failed, ledger0, consistent0, readOk, before, prev,
          info

database == <<ledger, indexed, applied, txn>>
locals == <<migrationFiles, currentVersion, versions, targetVersion, info>>
vars == <<dir, ledger, indexed, applied, txn, pc, cmd, toVersion,
          migrationFiles, currentVersion, versions, targetVersion, idx,
          trace, outcome, failed, ledger0, consistent0, readOk, before,
          prev, info>>

Event(op, ok) == [op |-> op, key |-> versions[idx], ok |-> ok]

\* the scripts the command has sent to the database, in order
Scripts(t) == SelectSeq(t, LAMBDA e : e.op \in {"do", "undo"})

\* the version of the last script the command has sent, 0 when none
LastUnit(t) ==
    IF Scripts(t) = <<>> THEN 0
    ELSE ParseInt(Scripts(t)[Len(Scripts(t))].key).n

\* the calls of executeMigration that raise
ScriptCalls == {"BEGIN", "content", "COMMIT", "CANCEL"}

NoRun ==
    [outcome |-> "none", latest |-> FALSE, toVersion |-> Undefined,
     unit |-> 0, before |-> 0]

\* what is remembered of a migrate command that has just ended.
\*   "returned": it ended without an error; latest tells that it had no
\*       --to, unit is the last version it applied (0 when none) and before
\*       the current version of the ledger before that version was recorded
\*   "aborted": it had read the ledger and a call of executeMigration
\*       raised; toVersion is its --to and unit the version whose script
\*       was being run
LastRun ==
    IF cmd = "migrate" /\ outcome \in {"ok", "uptodate", "mismatch"}
    THEN [outcome |-> "returned", latest |-> (toVersion = Undefined),
          toVersion |-> Undefined, unit |-> LastUnit(trace),
          before |-> before]
    ELSE IF cmd = "migrate" /\ outcome = "throw" /\ failed \in ScriptCalls
            /\ readOk
    THEN [outcome |-> "aborted", latest |-> (toVersion = Undefined),
          toVersion |-> toVersion, unit |-> ParseInt(versions[idx]).n,
          before |-> 0]
    ELSE NoRun

\* before getInfo has returned
NoInfo ==
    [currentVersion |-> 0, currentVersionTitle |-> Undefined,
     latestVersion |-> Num(0), pendingMigrations |-> <<>>]

Init ==
    /\ dir = {"README.md"}
    /\ ledger = EmptyBag
    /\ indexed = FALSE
    /\ applied = {}
    /\ txn = "none"
    /\ pc = "idle"
    /\ cmd = "none"
    /\ toVersion = Undefined
    /\ migrationFiles = NoFiles
    /\ currentVersion = 0
    /\ versions = <<>>
    /\ targetVersion = Num(0)
    /\ idx = 0
    /\ trace = <<>>
    /\ outcome = "none"
    /\ failed = "none"
    /\ ledger0 = EmptyBag
    /\ consistent0 = TRUE
    /\ readOk = TRUE
    /\ before = 0
    /\ prev = NoRun
    /\ info = NoInfo

(***************************************************************************)
(* The environment.  A migration file is added to the directory between    *)
(* two invocations; the next command then runs on another set of files, so *)
(* nothing is remembered of the one before.  The process of a command that *)
(* has ended goes away with its locals.                                    *)
(***************************************************************************)
NoLocals ==
    /\ cmd' = "none"
    /\ toVersion' = Undefined
    /\ migrationFiles' = NoFiles
    /\ currentVersion' = 0
    /\ versions' = <<>>
    /\ targetVersion' = Num(0)
    /\ idx' = 0
    /\ trace' = <<>>
    /\ outcome' = "none"
    /\ failed' = "none"
    /\ ledger0' = EmptyBag
    /\ consistent0' = TRUE
    /\ readOk' = TRUE
    /\ before' = 0
    /\ info' = NoInfo

addFile(f) ==
    /\ pc = "idle"
    /\ f \notin dir
    /\ dir' = dir \cup {f}
    /\ prev' = NoRun
    /\ UNCHANGED <<database, pc, cmd, toVersion, locals, idx, trace, outcome,
                   failed, ledger0, consistent0, readOk, before>>

exit ==
    /\ pc = "done"
    /\ pc' = "idle"
    /\ prev' = LastRun
    /\ NoLocals
    /\ UNCHANGED <<dir, database>>

(***************************************************************************)
(* The start of a command, up to the for loop: connectToDatabase,          *)
(* getMigrationFiles, getCurrentVersion, the sort, the target and the two  *)
(* early returns.  fault names the call that fails, if any: the database   *)
(* connection, the readdir or the SELECT.                                  *)
(***************************************************************************)
\* getCurrentVersion that never finds a row
getCurrentVersionEmpty(read) == 0

\* getCurrentVersion: the SELECT, or 0 when it is rejected
getCurrentVersion(read) == IF read THEN LatestVersion(ledger) ELSE 0

\* process.exit(1) in connectToDatabase or getMigrationFiles
Exit(call) ==
    /\ migrationFiles' = NoFiles
    /\ currentVersion' = 0
    /\ versions' = <<>>
    /\ targetVersion' = Num(0)
    /\ idx' = 0
    /\ readOk' = TRUE
    /\ info' = NoInfo
    /\ outcome' = "exit"
    /\ failed' = call
    /\ pc' = "done"

StartCommand(command, to) ==
    /\ pc = "idle"
    /\ cmd' = command
    /\ toVersion' = to
    /\ trace' = <<>>
    /\ ledger0' = ledger
    /\ consistent0' = (LedgerVersions(ledger) = applied)
    /\ before' = 0
    /\ UNCHANGED <<dir, ledger, applied, txn, prev>>

Faults == {"none", "connect", "readdir", "SELECT"}

\* connectToDatabase: the table and its index are defined when missing
connectToDatabase(fault) ==
    indexed' = IF fault # "connect" THEN TRUE ELSE indexed

\* a default target of 0: everything is reverted
DefaultRollbackTargetZero(current) == Num(0)

\* currentVersion - 1
DefaultRollbackTarget(current) == Num(current - 1)

\* targetVersion < currentVersion
MigrateMismatch(target, current) == Lt(target, Num(current))

\* targetVersion === currentVersion
UpToDate(target, current) == StrictEq(target, Num(current))

\* targetVersion > currentVersion, for >=
RollbackMismatchAbove(target, current) == Gt(target, Num(current))

\* targetVersion >= currentVersion
RollbackMismatch(target, current) == Ge(target, Num(current))

migrate(to) ==
    /\ StartCommand("migrate", to)
    /\ \E fault \in Faults :
        /\ connectToDatabase(fault)
        /\ IF fault \in {"connect", "readdir"} THEN Exit(fault)
           ELSE
             LET files == getMigrationFiles(dir)
                 current == getCurrentVersion(fault # "SELECT")
                 sorted == Sort(ObjectKeys(files), "asc")
                 target == IF to # Undefined THEN ParseInt(to)
                           ELSE MathMax(sorted)
             IN  /\ migrationFiles' = files
                 /\ currentVersion' = current
                 /\ versions' = sorted
                 /\ targetVersion' = target
                 /\ readOk' = (fault # "SELECT")
                 /\ info' = NoInfo
                 /\ failed' = "none"
                 /\ IF MigrateMismatch(target, current)
                    THEN outcome' = "mismatch" /\ pc' = "done" /\ idx' = 0
                    ELSE IF UpToDate(target, current)
                    THEN outcome' = "uptodate" /\ pc' = "done" /\ idx' = 0
                    ELSE outcome' = "running" /\ pc' = "loop" /\ idx' = 1

rollback(to) ==
    /\ StartCommand("rollback", to)
    /\ \E fault \in Faults :
        /\ connectToDatabase(fault)
        /\ IF fault \in {"connect", "readdir"} THEN Exit(fault)
           ELSE
             LET files == getMigrationFiles(dir)
                 current == getCurrentVersion(fault # "SELECT")
                 sorted == Sort(ObjectKeys(files), "desc")
                 target == IF to # Undefined THEN ParseInt(to)
                           ELSE DefaultRollbackTarget(current)
             IN  /\ migrationFiles' = files
                 /\ currentVersion' = current
                 /\ versions' = sorted
                 /\ targetVersion' = target
                 /\ readOk' = (fault # "SELECT")
                 /\ info' = NoInfo
                 /\ failed' = "none"
                 /\ IF RollbackMismatch(target, current)
                    THEN outcome' = "mismatch" /\ pc' = "done" /\ idx' = 0
                    ELSE outcome' = "running" /\ pc' = "loop" /\ idx' = 1

(***************************************************************************)
(* The info command: displayInfo() prints what getInfo() returns.          *)
(***************************************************************************)
\* the first row of SELECT * FROM migrations ORDER BY version DESC LIMIT 1
TopRow(l) == CHOOSE r \in BagToSet(l) : r.version = LatestVersion(l)

\* getCurrentVersionInfo: result[0]?.[0] || {...}, or the object of the
\* catch when the SELECT is rejected
getCurrentVersionInfo(read) ==
    IF ~read THEN [version |-> 0, title |-> "Error retrieving version info"]
    ELSE IF ledger = EmptyBag
    THEN [version |-> 0, title |-> "No migrations applied"]
    ELSE TopRow(ledger)

\* the filter of pendingMigrations with >= for >
PendingInfoFromCurrent(version, current) == Ge(ParseInt(version), Num(current))

\* the filter of pendingMigrations
PendingInfo(version, current) == Gt(ParseInt(version), Num(current))

\* the map of pendingMigrations
PendingEntry(files, version) ==
    [version |-> version,
     title |-> IF files.val[version].title # "" THEN files.val[version].title
               ELSE "Untitled"]

getInfo(d, read) ==
    LET files == getMigrationFiles(d)
        currentVersionInfo == getCurrentVersionInfo(read)
        sorted == Sort(ObjectKeys(files), "asc")
        pending == SelectSeq(sorted,
                     LAMBDA v : PendingInfo(v, currentVersionInfo.version))
    IN  [currentVersion |-> currentVersionInfo.version,
         currentVersionTitle |-> currentVersionInfo.title,
         latestVersion |-> MathMax(sorted),
         pendingMigrations |->
             [i \in 1..Len(pending) |-> PendingEntry(files, pending[i])]]

displayInfo ==
    /\ StartCommand("info", Undefined)
    /\ \E fault \in Faults :
        /\ connectToDatabase(fault)
        /\ IF fault \in {"connect", "readdir"} THEN Exit(fault)
           ELSE /\ info' = getInfo(dir, fault # "SELECT")
                /\ readOk' = (fault # "SELECT")
                /\ migrationFiles' = NoFiles
                /\ currentVersion' = 0
                /\ versions' = <<>>
                /\ targetVersion' = Num(0)
                /\ idx' = 0
                /\ failed' = "none"
                /\ outcome' = "ok"
                /\ pc' = "done"

(***************************************************************************)
(* The for loops.                                                          *)
(***************************************************************************)
\* the if of the migrate loop with >= for >: the current version is
\* selected again
PendingVersionFromCurrent(version) ==
    /\ Ge(ParseInt(version), Num(currentVersion))
    /\ Le(ParseInt(version), targetVersion)

\* the if of the migrate loop
PendingVersion(version) ==
    /\ Gt(ParseInt(version), Num(currentVersion))
    /\ Le(ParseInt(version), targetVersion)

\* the if of the rollback loop with >= for >: the target version is
\* reverted too
RevertedVersionToTarget(version) ==
    /\ Le(ParseInt(version), Num(currentVersion))
    /\ Ge(ParseInt(version), targetVersion)

\* the if of the rollback loop
RevertedVersion(version) ==
    /\ Le(ParseInt(version), Num(currentVersion))
    /\ Gt(ParseInt(version), targetVersion)

Selected(version) ==
    IF cmd = "migrate" THEN PendingVersion(version) ELSE RevertedVersion(version)

\* the loop passes over the versions its if rejects
RECURSIVE NextSelected(_)
NextSelected(i) ==
    IF i > Len(versions) \/ Selected(versions[i]) THEN i
    ELSE NextSelected(i + 1)

\* the command returns
Return ==
    /\ outcome' = "ok"
    /\ pc' = "done"

\* an exception leaves the command; the process and its connection end
Throw(call) ==
    /\ outcome' = "throw"
    /\ failed' = call
    /\ pc' = "done"

\* one iteration of a loop, up to the call of executeMigration: script is
\* the do or the undo file of the version; path.join throws when it is
\* undefined
Iterate(action) ==
    LET j == NextSelected(idx)
    IN  /\ idx' = j
        /\ IF j > Len(versions)
           THEN Return /\ UNCHANGED failed
           ELSE LET script == migrationFiles.val[versions[j]][action]
                IN  IF script = Undefined
                    THEN Throw("path.join")
                    ELSE /\ pc' = "begin"
                         /\ UNCHANGED <<outcome, failed>>
        /\ UNCHANGED <<dir, database, cmd, toVersion, locals, trace, ledger0,
                       consistent0, readOk, before, prev>>

migrateLoop ==
    /\ pc = "loop"
    /\ cmd = "migrate"
    /\ Iterate("do")

rollbackLoop ==
    /\ pc = "loop"
    /\ cmd = "rollback"
    /\ Iterate("undo")

(***************************************************************************)
(* executeMigration, one action per query.                                 *)
(***************************************************************************)
ScriptAction == IF cmd = "migrate" THEN "do" ELSE "undo"

\* the version of the unit the loop stands on, as it is recorded
UnitVersion == ParseInt(versions[idx]).n

\* db.query('BEGIN TRANSACTION'), outside the try
executeMigrationBegin(ok) ==
    /\ pc = "begin"
    /\ trace' = Append(trace, Event("BEGIN", ok))
    /\ IF ok
       THEN /\ txn' = "open"
            /\ pc' = "content"
            /\ UNCHANGED <<outcome, failed>>
       ELSE /\ Throw("BEGIN")
            /\ UNCHANGED txn
    /\ UNCHANGED <<dir, ledger, indexed, applied, cmd, toVersion, locals,
                   idx, ledger0, consistent0, readOk, before, prev>>

\* db.query(content)
executeMigrationContent(ok) ==
    /\ pc = "content"
    /\ trace' = Append(trace, Event(ScriptAction, ok))
    /\ IF ok
       THEN /\ txn' = "staged"
            /\ pc' = "commit"
            /\ UNCHANGED failed
       ELSE /\ pc' = "cancel"
            /\ failed' = "content"
            /\ UNCHANGED txn
    /\ UNCHANGED <<dir, ledger, indexed, applied, cmd, toVersion, locals,
                   idx, outcome, ledger0, consistent0, readOk, before, prev>>

\* what a committed script leaves in the database
Committed(action, version, done) ==
    IF action = "do" THEN done \cup {version} ELSE done \ {version}

\* a loop that does not update the ledger after the script
executeMigrationCommitNoUpdate(ok) ==
    /\ pc = "commit"
    /\ trace' = Append(trace, Event("COMMIT", ok))
    /\ IF ok
       THEN /\ txn' = "none"
            /\ applied' = Committed(ScriptAction, UnitVersion, applied)
            /\ pc' = "loop"
            /\ idx' = idx + 1
            /\ UNCHANGED failed
       ELSE /\ pc' = "cancel"
            /\ failed' = "COMMIT"
            /\ UNCHANGED <<txn, applied, idx>>
    /\ UNCHANGED <<dir, ledger, indexed, cmd, toVersion, locals,
                   outcome, ledger0, consistent0, readOk, before, prev>>

\* the COMMIT outside the try: its error leaves without the CANCEL
executeMigrationCommitUncaught(ok) ==
    /\ pc = "commit"
    /\ trace' = Append(trace, Event("COMMIT", ok))
    /\ IF ok
       THEN /\ txn' = "none"
            /\ applied' = Committed(ScriptAction, UnitVersion, applied)
            /\ pc' = "record"
            /\ UNCHANGED <<outcome, failed>>
       ELSE /\ Throw("COMMIT")
            /\ txn' = "none"
            /\ UNCHANGED applied
    /\ UNCHANGED <<dir, ledger, indexed, cmd, toVersion, locals, idx,
                   ledger0, consistent0, readOk, before, prev>>

\* db.query('COMMIT TRANSACTION')
executeMigrationCommit(ok) ==
    /\ pc = "commit"
    /\ trace' = Append(trace, Event("COMMIT", ok))
    /\ IF ok
       THEN /\ txn' = "none"
            /\ applied' = Committed(ScriptAction, UnitVersion, applied)
            /\ pc' = "record"
            /\ UNCHANGED failed
       ELSE /\ pc' = "cancel"
            /\ failed' = "COMMIT"
            /\ UNCHANGED <<txn, applied>>
    /\ UNCHANGED <<dir, ledger, indexed, cmd, toVersion, locals, idx,
                   outcome, ledger0, consistent0, readOk, before, prev>>

\* the catch without its throw: executeMigration returns and the caller
\* goes on to the ledger update
executeMigrationCancelSwallow(ok) ==
    /\ pc = "cancel"
    /\ trace' = Append(trace, Event("CANCEL", ok))
    /\ txn' = "none"
    /\ IF ok
       THEN pc' = "record" /\ UNCHANGED <<outcome, failed>>
       ELSE Throw("CANCEL")
    /\ UNCHANGED <<dir, ledger, indexed, applied, cmd, toVersion, locals,
                   idx, ledger0, consistent0, readOk, before, prev>>

\* the catch: db.query('CANCEL TRANSACTION'), then throw error.  When the
\* CANCEL is rejected its own error leaves instead, and the open
\* transaction ends with the connection
executeMigrationCancel(ok) ==
    /\ pc = "cancel"
    /\ trace' = Append(trace, Event("CANCEL", ok))
    /\ txn' = "none"
    /\ Throw(IF ok THEN failed ELSE "CANCEL")
    /\ UNCHANGED <<dir, ledger, indexed, applied, cmd, toVersion, locals,
                   idx, ledger0, consistent0, readOk, before, prev>>

(***************************************************************************)
(* The ledger update that follows executeMigration.                        *)
(***************************************************************************)
\* setCurrentVersion with a catch that logs and does not rethrow
setCurrentVersionSwallow(ok) ==
    /\ pc = "record"
    /\ cmd = "migrate"
    /\ LET title == migrationFiles.val[versions[idx]].title
           created == ok /\ ~ViolatesIndex(ledger, indexed, UnitVersion)
       IN  /\ trace' = Append(trace, Event("CREATE", created))
           /\ before' = LatestVersion(ledger)
           /\ ledger' = IF created THEN CreateRow(ledger, UnitVersion, title)
                        ELSE ledger
           /\ idx' = idx + 1
           /\ pc' = "loop"
           /\ UNCHANGED <<outcome, failed>>
    /\ UNCHANGED <<dir, indexed, applied, txn, cmd, toVersion, locals,
                   ledger0, consistent0, readOk, prev>>

\* setCurrentVersion(parseInt(version), title): the CREATE is rejected by
\* the UNIQUE index or by the database; the catch logs and rethrows
setCurrentVersion(ok) ==
    /\ pc = "record"
    /\ cmd = "migrate"
    /\ LET title == migrationFiles.val[versions[idx]].title
           created == ok /\ ~ViolatesIndex(ledger, indexed, UnitVersion)
       IN  /\ trace' = Append(trace, Event("CREATE", created))
           /\ before' = LatestVersion(ledger)
           /\ IF created
              THEN /\ ledger' = CreateRow(ledger, UnitVersion, title)
                   /\ idx' = idx + 1
                   /\ pc' = "loop"
                   /\ UNCHANGED <<outcome, failed>>
              ELSE /\ Throw("CREATE")
                   /\ UNCHANGED <<ledger, idx>>
    /\ UNCHANGED <<dir, indexed, applied, txn, cmd, toVersion, locals,
                   ledger0, consistent0, readOk, prev>>

\* db.query('DELETE migrations WHERE version = $version'), not caught
deleteMigration(ok) ==
    /\ pc = "record"
    /\ cmd = "rollback"
    /\ trace' = Append(trace, Event("DELETE", ok))
    /\ before' = LatestVersion(ledger)
    /\ IF ok
       THEN /\ ledger' = DeleteRows(ledger, UnitVersion)
            /\ idx' = idx + 1
            /\ pc' = "loop"
            /\ UNCHANGED <<outcome, failed>>
       ELSE /\ Throw("DELETE")
            /\ UNCHANGED <<ledger, idx>>
    /\ UNCHANGED <<dir, indexed, applied, txn, cmd, toVersion, locals,
                   ledger0, consistent0, readOk, prev>>

Next ==
    \/ \E f \in MigrationFileNames : addFile(f)
    \/ exit
    \/ \E to \in ToOptions : migrate(to)
    \/ \E to \in ToOptions : rollback(to)
    \/ displayInfo
    \/ migrateLoop
    \/ rollbackLoop
    \/ \E ok \in BOOLEAN : executeMigrationBegin(ok)
    \/ \E ok \in BOOLEAN : executeMigrationContent(ok)
    \/ \E ok \in BOOLEAN : executeMigrationCommit(ok)
    \/ \E ok \in BOOLEAN : executeMigrationCancel(ok)
    \/ \E ok \in BOOLEAN : setCurrentVersion(ok)
    \/ \E ok \in BOOLEAN : deleteMigration(ok)

Spec == Init /\ [][Next]_vars

TypeOK ==
    /\ dir \subseteq MigrationFileNames \cup {"README.md"}
    /\ LedgerVersions(ledger) \subseteq Versions
    /\ applied \subseteq Versions
    /\ txn \in {"none", "open", "staged"}
    /\ pc \in {"idle", "loop", "begin", "content", "commit", "cancel", "record",
             "done"}
    /\ cmd \in {"none", "migrate", "rollback", "info"}

(***************************************************************************)
(* What the properties speak of, read off the directory and the options    *)
(* rather than off the locals of the command.                              *)
(***************************************************************************)
\* the versions that have a file in the directory
Discovered ==
    {v \in Versions : FileName(v, "do") \in dir \/ FileName(v, "undo") \in dir}

HasScript(v, action) == FileName(v, action) \in dir

MaxOf(S) == CHOOSE v \in S : \A w \in S : w <= v

\* the number given with --to
OptionValue(to) == CHOOSE n \in 0..MaxVersion : ToString(n) = to

\* v <= t, for the target t of a migrate command
UpToTarget(v) ==
    IF toVersion # Undefined THEN v <= OptionValue(toVersion)
    ELSE Discovered # {} /\ v <= MaxOf(Discovered)

\* t < v, for the target t of a rollback command
AboveTarget(v) ==
    IF toVersion # Undefined THEN OptionValue(toVersion) < v
    ELSE currentVersion - 1 < v

\* the versions of the scripts the command has sent, in order
ScriptVersions == [i \in 1..Len(Scripts(trace)) |-> ParseInt(Scripts(trace)[i].key).n]

ScriptOps == {Scripts(trace)[i].op : i \in 1..Len(Scripts(trace))}

Range(f) == {f[i] : i \in DOMAIN f}

\* the command has connected, listed the directory and read the ledger
Planned == cmd # "none" /\ outcome # "exit"

(***************************************************************************)
(* C1.  A migrate command sends do scripts only, only for versions v with  *)
(* c < v <= t, in strictly ascending order of version, where c is the      *)
(* current version the command read from the ledger (the greatest version  *)
(* in it, 0 when it is empty) and t the --to value or else the greatest    *)
(* discovered version; a command that returns has sent the script of every *)
(* discovered version in that range.                                       *)
(***************************************************************************)
MigrateRange ==
    (cmd = "migrate" /\ Planned) =>
        /\ readOk => currentVersion = LatestVersion(ledger0)
        /\ ScriptOps \subseteq {"do"}
        /\ \A i \in DOMAIN ScriptVersions :
              /\ currentVersion < ScriptVersions[i]
              /\ UpToTarget(ScriptVersions[i])
        /\ \A i, j \in DOMAIN ScriptVersions :
              i < j => ScriptVersions[i] < ScriptVersions[j]
        /\ outcome = "ok" =>
              Range(ScriptVersions) =
                  {v \in Discovered : currentVersion < v /\ UpToTarget(v)}

\* a migrate command has applied two versions and returned
MigrateRangeWitness ==
    /\ pc = "done"
    /\ cmd = "migrate"
    /\ outcome = "ok"
    /\ Len(Scripts(trace)) >= 2

(***************************************************************************)
(* C2.  A rollback command sends undo scripts only, only for versions v    *)
(* with t < v <= c, in strictly descending order of version, where t is    *)
(* the --to value or else c - 1; a command that returns has sent the       *)
(* script of every discovered version in that range.  No command sends     *)
(* both a do and an undo script.                                           *)
(***************************************************************************)
RollbackRange ==
    /\ Cardinality(ScriptOps) <= 1
    /\ (cmd = "rollback" /\ Planned) =>
        /\ readOk => currentVersion = LatestVersion(ledger0)
        /\ ScriptOps \subseteq {"undo"}
        /\ \A i \in DOMAIN ScriptVersions :
              /\ ScriptVersions[i] <= currentVersion
              /\ AboveTarget(ScriptVersions[i])
        /\ \A i, j \in DOMAIN ScriptVersions :
              i < j => ScriptVersions[i] > ScriptVersions[j]
        /\ outcome = "ok" =>
              Range(ScriptVersions) =
                  {v \in Discovered : v <= currentVersion /\ AboveTarget(v)}

\* a rollback command has reverted two versions and returned
RollbackRangeWitness ==
    /\ pc = "done"
    /\ cmd = "rollback"
    /\ outcome = "ok"
    /\ Len(Scripts(trace)) >= 2

(***************************************************************************)
(* C3.  When a migrate command without --to has returned and the next      *)
(* command, on the same files, is again migrate without --to, then that    *)
(* command sends no query at all and leaves the ledger as it found it      *)
(* (given that it could read the ledger).                                  *)
(***************************************************************************)
SecondMigrate ==
    /\ prev.outcome = "returned"
    /\ prev.latest
    /\ cmd = "migrate"
    /\ toVersion = Undefined
    /\ Planned
    /\ readOk

MigrateIdempotent ==
    SecondMigrate =>
        /\ trace = <<>>
        /\ ledger = ledger0
        /\ pc = "done"
        /\ outcome \in {"uptodate", "mismatch"}

\* the first command applied a version, the second found nothing to do
MigrateIdempotentWitness ==
    /\ SecondMigrate
    /\ prev.unit > 0
    /\ pc = "done"
    /\ outcome = "uptodate"

(***************************************************************************)
(* C4.  Round trip: a migrate command has returned after applying version  *)
(* N last, and the next command is a rollback that returns after           *)
(* reverting N alone.                                                      *)
(***************************************************************************)
RoundTripDone ==
    /\ pc = "done"
    /\ cmd = "rollback"
    /\ outcome = "ok"
    /\ prev.outcome = "returned"
    /\ prev.unit > 0
    /\ ScriptVersions = <<prev.unit>>

\* C4 as stated: the ledger entry of N is gone and the current version is
\* N - 1
RoundTripToPredecessor ==
    RoundTripDone =>
        /\ prev.unit \notin LedgerVersions(ledger)
        /\ LatestVersion(ledger) = prev.unit - 1

\* C4, amended: the ledger entry of N is gone and the current version is
\* the one the ledger had before N was recorded
RoundTrip ==
    RoundTripDone =>
        /\ prev.unit \notin LedgerVersions(ledger)
        /\ LatestVersion(ledger) = prev.before

\* a round trip that leads back to a version other than 0
RoundTripWitness ==
    /\ RoundTripDone
    /\ prev.before > 0

(***************************************************************************)
(* C5.  Direction guard: a migrate command whose target is below the       *)
(* current version, and a rollback command whose target is not below it,   *)
(* send no query, open no transaction and leave the ledger alone; they end *)
(* with the warning.                                                       *)
(***************************************************************************)
WrongDirection ==
    \/ /\ cmd = "migrate"
       /\ IF toVersion # Undefined THEN OptionValue(toVersion) < currentVersion
          ELSE Discovered # {} /\ MaxOf(Discovered) < currentVersion
    \/ /\ cmd = "rollback"
       /\ IF toVersion # Undefined THEN OptionValue(toVersion) >= currentVersion
          ELSE currentVersion - 1 >= currentVersion

DirectionGuard ==
    (Planned /\ WrongDirection) =>
        /\ trace = <<>>
        /\ txn = "none"
        /\ ledger = ledger0
        /\ pc = "done"
        /\ outcome = "mismatch"

\* rollback --to c on a ledger at version c > 0
DirectionGuardWitness ==
    /\ Planned
    /\ cmd = "rollback"
    /\ currentVersion > 0
    /\ toVersion # Undefined
    /\ OptionValue(toVersion) = currentVersion
    /\ outcome = "mismatch"

(***************************************************************************)
(* C6.  Missing-script guard: when a version in the range of a migrate     *)
(* command has no do script, or a version in the range of a rollback       *)
(* command has no undo script, the command sends no script, creates and    *)
(* deletes no ledger entry, and ends in an error.                          *)
(***************************************************************************)
InRange(v) ==
    IF cmd = "migrate" THEN currentVersion < v /\ UpToTarget(v)
    ELSE v <= currentVersion /\ AboveTarget(v)

MissingScript ==
    /\ Planned
    /\ cmd \in {"migrate", "rollback"}
    /\ \E v \in Discovered :
          /\ InRange(v)
          /\ ~HasScript(v, IF cmd = "migrate" THEN "do" ELSE "undo")

MissingScriptGuard ==
    MissingScript =>
        /\ Scripts(trace) = <<>>
        /\ ledger = ledger0
        /\ pc = "done" => outcome = "throw"

(***************************************************************************)
(* C7.  Partial failure: when a script of a migrate command fails (its     *)
(* BEGIN, its content or its COMMIT is rejected), the command ends in      *)
(* that error after the CANCEL, with nothing else sent; the ledger holds   *)
(* every version of the range below the failed one, holds neither the      *)
(* failed version nor a later one of the range, and no script of a later   *)
(* version has been sent.  (For a command that could read the ledger.)     *)
(***************************************************************************)
ScriptFailure(e) == e.op \in {"BEGIN", "do", "undo", "COMMIT"} /\ ~e.ok

FailedAt == CHOOSE i \in DOMAIN trace : ScriptFailure(trace[i])

PartialFailureDone ==
    /\ pc = "done"
    /\ cmd = "migrate"
    /\ readOk
    /\ \E i \in DOMAIN trace : ScriptFailure(trace[i])

PartialFailure ==
    PartialFailureDone =>
        LET k == ParseInt(trace[FailedAt].key).n
        IN  /\ outcome = "throw"
            /\ \A j \in DOMAIN trace : j > FailedAt => trace[j].op = "CANCEL"
            /\ \A v \in Discovered :
                  (InRange(v) /\ v < k) => v \in LedgerVersions(ledger)
            /\ \A v \in Discovered :
                  (InRange(v) /\ v >= k) => v \notin LedgerVersions(ledger)
            /\ \A i \in DOMAIN ScriptVersions : ScriptVersions[i] <= k

\* the script of the second version of the range fails, a later one exists
PartialFailureWitness ==
    /\ PartialFailureDone
    /\ trace[FailedAt].op = "do"
    /\ Len(Scripts(trace)) >= 2

(***************************************************************************)
(* C8.  Ledger uniqueness: the migrations table never holds two rows of    *)
(* the same version.                                                       *)
(***************************************************************************)
RowsOf(v) == {r \in BagToSet(ledger) : r.version = v}

LedgerUnique ==
    \A v \in LedgerVersions(ledger) :
        /\ Cardinality(RowsOf(v)) = 1
        /\ \A r \in RowsOf(v) : CopiesIn(r, ledger) = 1

\* a migrate command that could not read the ledger has sent the CREATE of
\* a version the ledger holds, and the index has rejected it
LedgerUniqueWitness ==
    /\ pc = "done"
    /\ cmd = "migrate"
    /\ ~readOk
    /\ failed = "CREATE"
    /\ UnitVersion \in LedgerVersions(ledger0)

(***************************************************************************)
(* C9.  At-most-once application: the do script of a version that is       *)
(* applied (committed, and not reverted since) is not committed again.     *)
(***************************************************************************)
AtMostOnce ==
    [][(pc = "commit" /\ cmd = "migrate" /\ pc' = "record")
          => UnitVersion \notin applied]_vars

ScriptQueries == {"BEGIN", "do", "undo", "COMMIT", "CANCEL"}

IsLast(i) == i = Len(trace)

\* trace[i] directly follows a query op of the same unit with fate ok
Follows(i, ops, ok) ==
    /\ i > 1
    /\ trace[i - 1].op \in ops
    /\ trace[i - 1].ok = ok
    /\ trace[i - 1].key = trace[i].key

\* the command has sent trace[i] last and now stands at position at
Awaits(i, at) == IsLast(i) => pc = at

\* the command has sent trace[i] last and has ended in an error
Raised(i) == IsLast(i) /\ pc = "done" /\ outcome = "throw"

TransactionShape ==
    \A i \in DOMAIN trace :
        LET e == trace[i]
        IN  /\ e.op = "BEGIN" =>
                /\ i > 1 => trace[i - 1].op \notin ScriptQueries
                /\ IF e.ok THEN Awaits(i, "content") ELSE Raised(i)
            /\ e.op \in {"do", "undo"} =>
                /\ Follows(i, {"BEGIN"}, TRUE)
                /\ Awaits(i, IF e.ok THEN "commit" ELSE "cancel")
            /\ e.op = "COMMIT" =>
                /\ Follows(i, {"do", "undo"}, TRUE)
                /\ ~e.ok => Awaits(i, "cancel")
            /\ e.op = "CANCEL" =>
                /\ Follows(i, {"do", "undo", "COMMIT"}, FALSE)
                /\ Raised(i)

OneTransaction ==
    /\ []TransactionShape
    /\ [][applied' # applied =>
            /\ pc = "commit"
            /\ trace' = Append(trace, Event("COMMIT", TRUE))]_vars

\* a command has recorded a unit; the COMMIT of the next one was rejected
\* and the CANCEL has followed
OneTransactionWitness ==
    /\ pc = "done"
    /\ \E i \in DOMAIN trace :
          /\ i > 4
          /\ trace[i].op = "CANCEL"
          /\ trace[i - 1].op = "COMMIT"

(***************************************************************************)
(* C12.  A ledger write that fails is not swallowed: when the CREATE of a  *)
(* migrate command or the DELETE of a rollback command is rejected, after  *)
(* the COMMIT of that unit was accepted, the command sends nothing more    *)
(* and ends in that error.                                                 *)
(***************************************************************************)
LedgerWriteFailure(e) == e.op \in {"CREATE", "DELETE"} /\ ~e.ok

LedgerWriteRaised ==
    \A i \in DOMAIN trace :
        LedgerWriteFailure(trace[i]) =>
            /\ Follows(i, {"COMMIT"}, TRUE)
            /\ Raised(i)
            /\ failed = trace[i].op

\* the DELETE of the first unit of a rollback command was rejected and the
\* range holds a later unit, which has an undo script
LedgerWriteRaisedWitness ==
    /\ pc = "done"
    /\ cmd = "rollback"
    /\ failed = "DELETE"
    /\ \E v \in Discovered :
          InRange(v) /\ v < UnitVersion /\ HasScript(v, "undo")

(***************************************************************************)
(* C13.  Resumption: a migrate command that had read the ledger was        *)
(* aborted at version k by a failure of its script, and the next command,  *)
(* on the same files, is migrate with the same --to (and reads the         *)
(* ledger).                                                                *)
(***************************************************************************)
Resumed ==
    /\ prev.outcome = "aborted"
    /\ cmd = "migrate"
    /\ toVersion = prev.toVersion
    /\ Planned
    /\ readOk

\* the target of the command when it is a number
TargetValue ==
    IF toVersion # Undefined THEN OptionValue(toVersion) ELSE MaxOf(Discovered)

\* what both readings of C13 share: the command enters its loop; it sends
\* do scripts from version k on, in ascending order, none of a version the
\* ledger held when it started; when it returns it has sent the script of
\* every discovered version from k up to the target
ResumesFrom(k) ==
    /\ outcome \notin {"uptodate", "mismatch"}
    /\ ScriptOps \subseteq {"do"}
    /\ \A i \in DOMAIN ScriptVersions :
          /\ ScriptVersions[i] >= k
          /\ ScriptVersions[i] \notin LedgerVersions(ledger0)
    /\ ScriptVersions # <<>> => ScriptVersions[1] = k
    /\ \A i, j \in DOMAIN ScriptVersions :
          i < j => ScriptVersions[i] < ScriptVersions[j]
    /\ outcome = "ok" =>
          Range(ScriptVersions) = {v \in Discovered : v >= k /\ UpToTarget(v)}

\* C13 as stated: a resumed command that returns leaves the current version
\* equal to the target
ResumptionToTarget ==
    Resumed =>
        /\ ResumesFrom(prev.unit)
        /\ outcome = "ok" => LatestVersion(ledger) = TargetValue

\* C13, amended: a resumed command that returns leaves the current version
\* equal to the greatest discovered version that is not above the target
Resumption ==
    Resumed =>
        /\ ResumesFrom(prev.unit)
        /\ outcome = "ok" =>
              LatestVersion(ledger) = MaxOf({v \in Discovered : UpToTarget(v)})

\* the earlier command was aborted at a version whose predecessor is in the
\* ledger, and the resumed command has returned
ResumptionWitness ==
    /\ Resumed
    /\ pc = "done"
    /\ outcome = "ok"
    /\ prev.unit - 1 \in LedgerVersions(ledger0)
    /\ ScriptVersions # <<>>

(***************************************************************************)
(* C14.  A rollback command without --to that finds the ledger not empty   *)
(* (and can read it) sends no script but the undo script of the current    *)
(* version, the greatest in the ledger, and changes the ledger in no way   *)
(* but by deleting the entry of that version; when it returns it has sent  *)
(* that script and deleted that entry.                                     *)
(***************************************************************************)
RollbackLast ==
    /\ cmd = "rollback"
    /\ toVersion = Undefined
    /\ Planned
    /\ readOk
    /\ ledger0 # EmptyBag

RevertsLast ==
    RollbackLast =>
        /\ currentVersion = MaxOf(LedgerVersions(ledger0))
        /\ outcome # "mismatch"
        /\ ScriptOps \subseteq {"undo"}
        /\ ScriptVersions \in {<<>>, <<currentVersion>>}
        /\ ledger \in {ledger0, DeleteRows(ledger0, currentVersion)}
        /\ outcome = "ok" =>
              /\ ScriptVersions = <<currentVersion>>
              /\ ledger = DeleteRows(ledger0, currentVersion)

\* the command has returned and has left an entry in the ledger
RevertsLastWitness ==
    /\ RollbackLast
    /\ pc = "done"
    /\ outcome = "ok"
    /\ ledger # EmptyBag

(***************************************************************************)
(* C15.  Status of an empty repository: when the info command finds no     *)
(* migration file and the current version 0, the latestVersion it reports  *)
(* is a number in range (neither NaN nor an infinity) and                  *)
(* pendingMigrations is the empty sequence.                                *)
(***************************************************************************)
EmptyStatus ==
    (cmd = "info" /\ Planned /\ Discovered = {} /\ info.currentVersion = 0) =>
        /\ info.latestVersion.kind = "num"
        /\ info.pendingMigrations = <<>>

(***************************************************************************)
(* C16.  Migrate on an empty repository: a migrate command without --to    *)
(* that finds no migration file sends no query, leaves the ledger alone    *)
(* and ends neither in an error nor with the direction warning.            *)
(***************************************************************************)
EmptyMigrate ==
    (cmd = "migrate" /\ Planned /\ toVersion = Undefined /\ Discovered = {}) =>
        /\ trace = <<>>
        /\ ledger = ledger0
        /\ pc = "done"
        /\ outcome \notin {"throw", "mismatch"}

(***************************************************************************)
(* C18.  Status report: the pendingMigrations the info command reports     *)
(* are the discovered versions greater than the current version it         *)
(* reports (the greatest version in the ledger, when it could read it), in *)
(* strictly ascending order, each with the title of its files or           *)
(* "Untitled" when that is empty; the command sends no script query and    *)
(* leaves the ledger as it found it.                                       *)
(***************************************************************************)
PendingVersions ==
    [i \in DOMAIN info.pendingMigrations |->
        ParseInt(info.pendingMigrations[i].version).n]

StatusReport ==
    (cmd = "info" /\ Planned) =>
        /\ readOk => info.currentVersion = LatestVersion(ledger)
        /\ Range(PendingVersions) = {v \in Discovered : v > info.currentVersion}
        /\ \A i, j \in DOMAIN PendingVersions :
              i < j => PendingVersions[i] < PendingVersions[j]
        /\ \A i \in DOMAIN PendingVersions :
              /\ info.pendingMigrations[i].version = ToString(PendingVersions[i])
              /\ info.pendingMigrations[i].title =
                    IF TitleFor(PendingVersions[i]) = "" THEN "Untitled"
                    ELSE TitleFor(PendingVersions[i])
        /\ trace = <<>>
        /\ txn = "none"
        /\ ledger = ledger0

\* a report on a ledger that is not empty, with an untitled pending version
StatusReportWitness ==
    /\ cmd = "info"
    /\ Planned
    /\ info.currentVersion > 0
    /\ \E i \in DOMAIN info.pendingMigrations :
          info.pendingMigrations[i].title = "Untitled"

(***************************************************************************)
(* C19.  Strictly sequential processing.  In the queries of a command,     *)
(* the BEGIN of a unit that is not the first directly follows the accepted *)
(* ledger update of the unit before it, which itself directly follows the  *)
(* accepted COMMIT of that unit; the ledger update is a CREATE in a        *)
(* migrate and a DELETE in a rollback command.  A transaction is open only *)
(* between the BEGIN and the COMMIT or CANCEL of one unit.                 *)
(***************************************************************************)
LedgerUpdate == IF cmd = "migrate" THEN "CREATE" ELSE "DELETE"

Sequential ==
    /\ \A i \in DOMAIN trace :
          /\ (trace[i].op = "BEGIN" /\ i > 1) =>
                /\ trace[i - 1].op = LedgerUpdate
                /\ trace[i - 1].ok
                /\ trace[i - 1].key # trace[i].key
          /\ trace[i].op \in {"CREATE", "DELETE"} =>
                /\ trace[i].op = LedgerUpdate
                /\ Follows(i, {"COMMIT"}, TRUE)
    /\ txn # "none" => pc \in {"content", "commit", "cancel"}
    /\ pc = "content" => txn = "open"
    /\ pc = "commit" => txn = "staged"

\* a rollback command has begun the transaction of its second unit
SequentialWitness ==
    /\ cmd = "rollback"
    /\ txn = "open"
    /\ \E i \in DOMAIN trace :
          /\ i > 1
          /\ trace[i].op = "BEGIN"
          /\ trace[i - 1].op = "DELETE"

(***************************************************************************)
(* C20.  Rollback reverts only applied versions: whenever a rollback       *)
(* command stands in the run of the undo script of a version (between its  *)
(* BEGIN and its COMMIT), the ledger holds an entry of that version.       *)
(***************************************************************************)
RevertsRecorded ==
    (cmd = "rollback" /\ pc \in {"begin", "content", "commit"}) =>
        UnitVersion \in LedgerVersions(ledger)

(***************************************************************************)
(* Directories with a file whose version token is not an integer.  The     *)
(* file matches the .do. pattern of getMigrationFiles; its token is either *)
(* no number at all or a number followed by a letter.  One such file is in *)
(* the directory from the start, so that its key is the last of            *)
(* Object.keys and no comparison of the sort involves two such keys.       *)
(***************************************************************************)
MalformedFileNames == {"x.do.surql", "2a.do.surql"}

InitMalformed ==
    /\ \E f \in MalformedFileNames : dir = {"README.md", f}
    /\ ledger = EmptyBag
    /\ indexed = FALSE
    /\ applied = {}
    /\ txn = "none"
    /\ pc = "idle"
    /\ cmd = "none"
    /\ toVersion = Undefined
    /\ migrationFiles = NoFiles
    /\ currentVersion = 0
    /\ versions = <<>>
    /\ targetVersion = Num(0)
    /\ idx = 0
    /\ trace = <<>>
    /\ outcome = "none"
    /\ failed = "none"
    /\ ledger0 = EmptyBag
    /\ consistent0 = TRUE
    /\ readOk = TRUE
    /\ before = 0
    /\ prev = NoRun
    /\ info = NoInfo

SpecMalformed == InitMalformed /\ [][Next]_vars

(***************************************************************************)
(* C17.  Malformed versions are rejected at discovery: no key of the       *)
(* scanned units is a token that is not an integer, no script of such a    *)
(* key is sent, and the scripts a migrate or rollback command sends are    *)
(* those of C1 and C2 for the well-formed files of the directory.          *)
(***************************************************************************)
IsInteger(token) ==
    /\ ParseInt(token).kind = "num"
    /\ ToString(ParseInt(token).n) = token

MalformedRejected ==
    /\ \A i \in DOMAIN migrationFiles.keys : IsInteger(migrationFiles.keys[i])
    /\ \A i \in DOMAIN trace : IsInteger(trace[i].key)
    /\ MigrateRange
    /\ RollbackRange

====
